---- MODULE Spec2Model ----
(***************************************************************************)
(* celltypist: the prediction pipeline of celltypist/classifier.py and     *)
(* celltypist/models.py as a state machine.                                *)
(*                                                                         *)
(*   Spec      the pipeline: a Model object shared by the Classifier       *)
(*             objects built on it, Classifier.celltype() and direct calls *)
(*             of Model.predict_labels_and_prob().                         *)
(*   VoteSpec  AnnotationResult objects and Classifier.majority_vote().    *)
(*                                                                         *)
(* Numbers.  Expression values, scaler means and scaler scales are held in *)
(* half units (the stored integer 12 is the real number 6.0, a scale of 1  *)
(* is the real number 0.5).  The quotient (x - mean) / scale has no unit;  *)
(* on the values drawn below it is always a whole number, so the integer   *)
(* division that models it is exact.  Weights, intercepts and scores are   *)
(* whole numbers.  Probabilities are held in units of 10^-9.               *)
(*                                                                         *)
(* Text.  A label is a sequence of one-character strings, so that joining, *)
(* the width of a numpy string array and lexicographic order are what they *)
(* are in the program.  Gene names, cell ids and cluster ids are only ever *)
(* compared for equality and are plain strings.                            *)
(***************************************************************************)
EXTENDS Integers, Sequences, FiniteSets, TLC

VARIABLES
    model0,     \* the model as unpickled by Model.load (never written again)
    model,      \* the Model object the Classifier objects share
    built,      \* the number of Classifier objects built on the Model so far
    clf,        \* the current Classifier object, or NoClassifier
    call,       \* what the celltype() call on clf did, or NoCall
    pred,       \* what the last predict_labels_and_prob() call on clf's matrix
                \* returned, or NoPred
    result,     \* the current AnnotationResult object, or NoResult
    voteCall,   \* what the majority_vote() call on result was given, or NoCall
    files,      \* the files on disk: the content of every path that exists
    fileCall    \* what the last call of download_models(), write() or load()
                \* was given and did, or NoCall

\* the objects of the annotation pipeline
pipeVars == <<model0, model, built, clf, call, pred, result, voteCall>>

\* the disk and the calls that read and write it
fileVars == <<files, fileCall>>

vars == <<model0, model, built, clf, call, pred, result, voteCall, files, fileCall>>

NoClassifier == [none |-> "Classifier"]
NoCall == [none |-> "call"]
NoPred == [none |-> "prediction"]
NoResult == [none |-> "AnnotationResult"]

(***************************************************************************)
(* Bounds and program constants                                            *)
(***************************************************************************)
\* the largest number of cells of an AnnotationResult
MaxCells == 3

\* the largest number of Classifier objects built on the one Model
MaxClassifiers == 2

\* classifier.py:186  self.indata[self.indata > 10] = 10
ClipMax == 10

\* models.py:86  p_thres: float = 0.5, in units of 10^-9
DefaultPThres == 500000000

(***************************************************************************)
(* Helpers                                                                 *)
(***************************************************************************)
Min(a, b) == IF a < b THEN a ELSE b

Max(a, b) == IF a > b THEN a ELSE b

Range(s) == {s[i] : i \in 1..Len(s)}

\* the injective sequences over S of length n
InjSeqs(S, n) == {s \in [1..n -> S] : \A i, j \in 1..n : i # j => s[i] # s[j]}

RECURSIVE SumTo(_, _)
\* f[1] + ... + f[n]
SumTo(f, n) == IF n = 0 THEN 0 ELSE f[n] + SumTo(f, n - 1)

(***************************************************************************)
(* Text                                                                    *)
(***************************************************************************)
\* the code points of the characters the labels are written with
Code ==
    "A" :> 65 @@ "B" :> 66 @@ "M" :> 77 @@ "U" :> 85 @@ "a" :> 97 @@
    "c" :> 99 @@ "d" :> 100 @@ "e" :> 101 @@ "g" :> 103 @@ "h" :> 104 @@
    "i" :> 105 @@ "n" :> 110 @@ "o" :> 111 @@ "p" :> 112 @@ "r" :> 114 @@
    "s" :> 115 @@ "|" :> 124

\* s < t as Python compares two str objects: by code point, a proper prefix first
StrLess(s, t) ==
    \E k \in 1..(Min(Len(s), Len(t)) + 1) :
        /\ \A i \in 1..(k - 1) : s[i] = t[i]
        /\ \/ k > Len(s) /\ k <= Len(t)
           \/ k <= Len(s) /\ k <= Len(t) /\ Code[s[k]] < Code[t[k]]

RECURSIVE Join(_)
\* models.py:114  '|'.join(names)
Join(names) ==
    IF Len(names) = 0 THEN << >>
    ELSE IF Len(names) = 1 THEN names[1]
    ELSE names[1] \o <<"|">> \o Join(Tail(names))

\* models.py:115  the sentinel of a cell no class is assigned to
Unassigned == <<"U", "n", "a", "s", "s", "i", "g", "n", "e", "d">>

\* models.py:114  np.array(list of str) is a fixed-width array: as wide as its
\* longest element, and at least one character wide
ArrayWidth(labs) ==
    LET RECURSIVE Widest(_)
        Widest(n) == IF n = 0 THEN 1 ELSE Max(Len(labs[n]), Widest(n - 1))
    IN Widest(Len(labs))

\* models.py:115  an element assigned into a fixed-width array is cut to its width
StoreStr(s, width) == SubSeq(s, 1, Min(Len(s), width))

(***************************************************************************)
(* The model file                                                          *)
(***************************************************************************)
\* every gene name of the model and of the inputs
Genes == {"g1", "g2", "g3"}

\* classifier.features of the pickled model
ModelFeatures == <<"g1", "g2">>

\* classifier.classes_ of the pickled model (scikit-learn keeps it sorted)
Classes == << <<"A">>, <<"B">>, <<"M", "a", "c", "r", "o", "p", "h", "a", "g", "e", "s">> >>

\* classifier.coef_: one row of weights per class, one column per feature
Coefs == { << <<1, 0>>, <<0, 1>>, <<-1, -1>> >>, << <<1, 0>>, <<0, 1>>, <<1, 1>> >> }

\* classifier.intercept_: one per class
Intercepts == { <<0, 0, 0>>, <<0, 1, 0>> }

\* scaler.mean_: one per feature (half units)
Means == { <<0, 2>>, <<2, 0>> }

\* scaler.scale_: one per feature (half units)
Scales == { <<1, 2>>, <<2, 1>> }

\* models.py:42-45, 69-72  the Model objects Model.load can return
Models ==
    {[features |-> ModelFeatures, coef_ |-> w, n_features_in_ |-> Len(ModelFeatures),
      intercept_ |-> b, classes_ |-> Classes, mean_ |-> m, scale_ |-> s] :
        w \in Coefs, b \in Intercepts, m \in Means, s \in Scales}

(***************************************************************************)
(* Input datasets                                                          *)
(***************************************************************************)
CellIds == <<"c1", "c2", "c3", "c4">>

\* the log1p-normalised expression values of the inputs (half units)
ExprValues == {0, 12}

\* adata.var_names: the gene lists of the inputs (var_names_make_unique,
\* classifier.py:136, keeps them free of duplicates)
InputGeneLists == InjSeqs(Genes, 1) \cup InjSeqs(Genes, 2)

\* the numbers of cells of the inputs
InputCellCounts == {1, 2}

\* the annotated matrices a Classifier is built on: n cells by the genes of var_names
Adatas ==
    UNION {UNION {{[X |-> x, var_names |-> g, obs_names |-> SubSeq(CellIds, 1, n)] :
                      x \in [1..n -> [1..Len(g) -> ExprValues]]} :
                  g \in InputGeneLists} :
           n \in InputCellCounts}

(***************************************************************************)
(* Model.predict_labels_and_prob  (models.py:86-118)                       *)
(***************************************************************************)
\* 10^9 / (1 + e^-s), rounded, for the scores s = -21 .. 21
ExpitTable ==
    <<1, 2, 6, 15, 41, 113, 306, 832, 2260, 6144, 16701, 45398, 123395, 335350,
      911051, 2472623, 6692851, 17986210, 47425873, 119202922, 268941421,
      500000000,
      731058579, 880797078, 952574127, 982013790, 993307149, 997527377,
      999088949, 999664650, 999876605, 999954602, 999983299, 999993856,
      999997740, 999999168, 999999694, 999999887, 999999959, 999999985,
      999999994, 999999998, 999999999>>

\* models.py:109  scipy.special.expit: the logistic function
Expit(s) == ExpitTable[s + (Len(ExpitTable) + 1) \div 2]

\* the number of columns of a matrix held as a sequence of rows
Width(mat) == IF Len(mat) = 0 THEN 0 ELSE Len(mat[1])

\* models.py:108  classifier.decision_function: scikit-learn validates its input
\* (a matrix without a column is refused) before it scores
DecisionFunctionRaises(m, indata) == Width(indata) = 0 \/ Width(indata) # Len(m.coef_[1])

\* models.py:108  classifier.decision_function: indata . coef_^T + intercept_
DecisionFunction(m, indata) ==
    [c \in 1..Len(indata) |->
        [k \in 1..Len(m.classes_) |->
            SumTo([j \in 1..Width(indata) |-> indata[c][j] * m.coef_[k][j]], Width(indata))
                + m.intercept_[k]]]

\* a mutant of ArgMax: the last position of the largest value
ArgMaxLast(row) ==
    CHOOSE i \in 1..Len(row) :
        /\ \A j \in 1..Len(row) : row[j] <= row[i]
        /\ \A j \in (i + 1)..Len(row) : row[j] < row[i]

\* models.py:111  numpy argmax of one row: the first position of the largest value
ArgMax(row) ==
    CHOOSE i \in 1..Len(row) :
        /\ \A j \in 1..Len(row) : row[j] <= row[i]
        /\ \A j \in 1..(i - 1) : row[j] < row[i]

\* models.py:111  self.classifier.classes_[scores.argmax(axis=1)]
BestMatch(m, scores) == [c \in 1..Len(scores) |-> m.classes_[ArgMax(scores[c])]]

\* models.py:113  flags = probs > p_thres, for one probability
Flag(p, p_thres) == p > p_thres

\* models.py:114  self.classifier.classes_[np.where(x)[0]]: the flagged classes, in
\* the order of classes_
Flagged(m, flags) ==
    LET RECURSIVE Pick(_)
        Pick(k) == IF k = 0 THEN << >>
                   ELSE IF flags[k] THEN Append(Pick(k - 1), m.classes_[k])
                   ELSE Pick(k - 1)
    IN Pick(Len(flags))

\* models.py:113-115  the labels of 'prob match'
ProbMatch(m, probs, p_thres) ==
    LET joined == [c \in 1..Len(probs) |->
                      Join(Flagged(m, [k \in 1..Len(probs[c]) |-> Flag(probs[c][k], p_thres)]))]
        width == ArrayWidth(joined)
    IN [c \in 1..Len(probs) |->
           IF joined[c] = << >> THEN StoreStr(Unassigned, width) ELSE joined[c]]

\* the mode argument: the two modes of the program and one it does not know
Modes == {"best match", "prob match", "other"}

\* models.py:86-118  what a call returns (scores, probs, labels), or the error it raises
PredictLabelsAndProb(m, indata, mode, p_thres) ==
    LET scores == DecisionFunction(m, indata)
        probs == [c \in 1..Len(scores) |-> [k \in 1..Len(scores[c]) |-> Expit(scores[c][k])]]
        args == [mode |-> mode, p_thres |-> p_thres, indata |-> indata]
    IN IF DecisionFunctionRaises(m, indata)
       THEN [raised |-> "decision_function", args |-> args]
       ELSE IF mode = "best match"
       THEN [raised |-> "none", args |-> args, scores |-> scores, probs |-> probs,
             labels |-> BestMatch(m, scores)]
       ELSE IF mode = "prob match"
       THEN [raised |-> "none", args |-> args, scores |-> scores, probs |-> probs,
             labels |-> ProbMatch(m, probs, p_thres)]
       ELSE [raised |-> "mode", args |-> args]

(***************************************************************************)
(* Classifier  (classifier.py:117-197)                                     *)
(***************************************************************************)
\* classifier.py:139-140, 159  the Classifier built on an annotated matrix: indata
\* and indata_genes are copies of X and var_names
NewClassifierObject(adata) ==
    [adata |-> adata, indata |-> adata.X, indata_genes |-> adata.var_names]

\* classifier.py:174, 176  np.where(np.isin(genes, features))[0]: the positions of
\* the input genes that are features, ascending
KxIdx(genes, features) ==
    LET RECURSIVE Pick(_)
        Pick(i) == IF i = 0 THEN << >>
                   ELSE IF genes[i] \in Range(features) THEN Append(Pick(i - 1), i)
                   ELSE Pick(i - 1)
    IN Pick(Len(genes))

\* numpy and pandas indexing with an index vector: seq[idx]
TakeSeq(seq, idx) == [j \in 1..Len(idx) |-> seq[idx[j]]]

\* a mutant of LrIdx: the genes taken to be the first features, in their order
LrIdxPositional(features, genes) == [j \in 1..Len(genes) |-> j]

\* a mutant of LrIdx: the positions of the retained genes in the order of the
\* feature list, not of the genes
LrIdxModelOrder(features, genes) ==
    LET Kept(i) == features[i] \in Range(genes)
    IN SelectSeq([i \in 1..Len(features) |-> i], Kept)

\* classifier.py:179  the position in features of every gene: features as a frame
\* indexed by name, .loc[genes, 'index']
LrIdx(features, genes) ==
    [j \in 1..Len(genes) |-> CHOOSE i \in 1..Len(features) : features[i] = genes[j]]

\* classifier.py:184-186  one value: subtract the mean, divide by the scale, clip
Rescale(x, mean, sd) ==
    LET v == (x - mean) \div sd IN IF v > ClipMax THEN ClipMax ELSE v

\* classifier.py:173-197  celltype() on Classifier c sharing Model m: the Classifier
\* and the Model it leaves, what predict_labels_and_prob returned, and how it ends
CelltypeRun(m, c) ==
    LET k_x_idx == KxIdx(c.indata_genes, m.features)
        cols == [r \in 1..Len(c.indata) |-> TakeSeq(c.indata[r], k_x_idx)]
        genes == TakeSeq(c.indata_genes, k_x_idx)
        lr_idx == LrIdx(m.features, genes)
        means_ == TakeSeq(m.mean_, lr_idx)
        sds_ == TakeSeq(m.scale_, lr_idx)
        scaled == [r \in 1..Len(cols) |->
                      [j \in 1..Len(genes) |-> Rescale(cols[r][j], means_[j], sds_[j])]]
        m1 == [m EXCEPT !.n_features_in_ = Len(lr_idx),
                        !.features = TakeSeq(m.features, lr_idx),
                        !.coef_ = [k \in 1..Len(m.coef_) |-> TakeSeq(m.coef_[k], lr_idx)]]
        ret == PredictLabelsAndProb(m1, scaled, "best match", DefaultPThres)
    IN [model |-> m1,
        clf |-> [c EXCEPT !.indata = scaled, !.indata_genes = genes],
        pred |-> ret,
        call |-> [before |-> m, lr_idx |-> lr_idx, means_ |-> means_, sds_ |-> sds_,
                  returned |-> ret,
                  \* classifier.py:193 unpacks the returned tuple into two names
                  raised |-> IF ret.raised # "none" THEN ret.raised
                             ELSE IF Cardinality(DOMAIN ret \ {"raised", "args"}) # 2
                             THEN "unpack" ELSE "none"]]

(***************************************************************************)
(* AnnotationResult and Classifier.majority_vote  (classifier.py:14-37,    *)
(* 248-276)                                                                *)
(***************************************************************************)
\* a pandas DataFrame: the row index, the column names, and each column's values
Frame(index, columns, col) == [index |-> index, columns |-> columns, col |-> col]

\* classifier.py:34-37  AnnotationResult(labels, prob)
NewAnnotationResult(labels, prob) ==
    [predicted_labels |-> labels, probability_table |-> prob,
     cell_count |-> Len(labels.index)]

\* classifier.py:197  the two frames celltype() builds from labels and probabilities
CelltypeResult(cells, classes, lab_mat, prob_mat) ==
    NewAnnotationResult(
        Frame(cells, <<"predicted_labels">>, [n \in {"predicted_labels"} |-> lab_mat]),
        Frame(cells, classes,
              [n \in Range(classes) |->
                  [r \in 1..Len(cells) |->
                      prob_mat[r][CHOOSE k \in 1..Len(classes) : classes[k] = n]]]))

\* the elements of S in ascending order (pandas sorts the keys of a crosstab)
SortStr(S) ==
    CHOOSE s \in InjSeqs(S, Cardinality(S)) :
        \A i, j \in 1..Len(s) : i < j => StrLess(s[i], s[j])

\* classifier.py:270  pd.crosstab(labels, over_clustering): a row per predicted
\* label, ascending, a column per cluster, and the cells counted in each
Crosstab(labels, over_clustering) ==
    LET rows == SortStr(Range(labels))
    IN [rows |-> rows,
        counts |-> [cl \in Range(over_clustering) |->
                       [i \in 1..Len(rows) |->
                           Cardinality({c \in 1..Len(labels) :
                               labels[c] = rows[i] /\ over_clustering[c] = cl})]]]

\* a mutant of IdxMaxRow: the row label of the last occurrence of the largest count
IdxMaxRowLast(rows, counts) ==
    rows[CHOOSE i \in 1..Len(counts) :
            /\ \A j \in 1..Len(counts) : counts[j] <= counts[i]
            /\ \A j \in (i + 1)..Len(counts) : counts[j] < counts[i]]

\* classifier.py:271  DataFrame.idxmax() of one column: the row label of the first
\* occurrence of the largest count
IdxMaxRow(rows, counts) ==
    rows[CHOOSE i \in 1..Len(counts) :
            /\ \A j \in 1..Len(counts) : counts[j] <= counts[i]
            /\ \A j \in 1..(i - 1) : counts[j] < counts[i]]

\* classifier.py:271  votes.idxmax(): the majority label of every cluster
IdxMax(votes) == [cl \in DOMAIN votes.counts |-> IdxMaxRow(votes.rows, votes.counts[cl])]

\* a mutant of JoinPairs: a join that ignores the index and pairs every row of left
\* with every row of right
CrossJoinPairs(left, right) ==
    [p \in 1..(Len(left) * Len(right)) |->
        [l |-> ((p - 1) \div Len(right)) + 1, r |-> ((p - 1) % Len(right)) + 1]]

\* classifier.py:274  DataFrame.join on the index: every row of left, in order, with
\* every row of right that has the same index value
JoinPairs(left, right) ==
    LET RECURSIVE Rows(_, _)
        Rows(i, k) ==
            IF i > Len(left) THEN << >>
            ELSE IF k > Len(right) THEN Rows(i + 1, 1)
            ELSE IF left[i] = right[k] THEN <<[l |-> i, r |-> k]>> \o Rows(i, k + 1)
            ELSE Rows(i, k + 1)
    IN Rows(1, 1)

\* classifier.py:267-276  the predicted_labels frame majority_vote leaves
MajorityVoteFrame(labels, over_clustering) ==
    LET votes == Crosstab(labels.col["predicted_labels"], over_clustering)
        winner == IdxMax(votes)
        \* rows by position: the cluster of each cell and its majority label, then
        \* indexed as predicted_labels is (classifier.py:272)
        majority == [c \in 1..Len(over_clustering) |->
                        [over_clustering |-> over_clustering[c],
                         majority_voting |-> winner[over_clustering[c]]]]
        pairs == JoinPairs(labels.index, labels.index)
    IN Frame([p \in 1..Len(pairs) |-> labels.index[pairs[p].l]],
             labels.columns \o <<"over_clustering", "majority_voting">>,
             [n \in Range(labels.columns) \cup {"over_clustering", "majority_voting"} |->
                 [p \in 1..Len(pairs) |->
                     IF n = "over_clustering" THEN majority[pairs[p].r].over_clustering
                     ELSE IF n = "majority_voting" THEN majority[pairs[p].r].majority_voting
                     ELSE labels.col[n][pairs[p].l]]])

\* the labels an AnnotationResult is built with: what predict_labels_and_prob can
\* return for classes A and B
VoteLabels == {<<"A">>, <<"A", "|", "B">>, <<"B">>}

\* the rows of probabilities an AnnotationResult is built with
ProbRows == {<<Expit(2), Expit(0), Expit(-2)>>, <<Expit(0), Expit(1), Expit(-1)>>}

\* the cluster ids of an over-clustering (leiden names its clusters "0", "1", ...)
ClusterIds == {"0", "1"}

(***************************************************************************)
(* Paths, files and the model server  (models.py:12-17, 127-142, 212-229)  *)
(*                                                                         *)
(* A path or a file name is a sequence of tokens: names, "." and "/".      *)
(* The disk is a function from the paths that exist to their content.      *)
(***************************************************************************)
\* models.py:13-17  models_path, the models folder under the home directory
ModelsPath == <<"~/.celltypist/data/models">>

\* models.py:123, 177  '.pkl'
DotPkl == <<".", "pkl">>

\* models.py:205  "models.json"
IndexName == <<"models", ".", "json">>

\* the file names the model index lists
NameA == <<"A", ".", "pkl">>
NameB == <<"B", ".", "pkl">>

\* the last position of token t in p, 0 when p does not hold it (str.rfind)
RFind(p, t) ==
    IF \E i \in 1..Len(p) : p[i] = t
    THEN CHOOSE i \in 1..Len(p) : p[i] = t /\ \A j \in (i + 1)..Len(p) : p[j] # t
    ELSE 0

\* models.py:123  os.path.splitext(file)[0]: the path without its extension; the
\* extension starts at the last dot of the last component, leading dots of the
\* component apart
SplitextRoot(p) ==
    LET sep == RFind(p, "/")
        dot == RFind(p, ".")
    IN IF dot > sep /\ \E i \in (sep + 1)..(dot - 1) : p[i] # "."
       THEN SubSeq(p, 1, dot - 1)
       ELSE p

\* models.py:177  str.endswith
EndsWith(s, suffix) ==
    /\ Len(s) >= Len(suffix)
    /\ SubSeq(s, Len(s) - Len(suffix) + 1, Len(s)) = suffix

\* models.py:142  os.path.join(a, b): an absolute b replaces a
PathJoin(a, b) ==
    IF Len(b) > 0 /\ b[1] = "/" THEN b
    ELSE IF Len(a) = 0 \/ a[Len(a)] = "/" THEN a \o b
    ELSE a \o <<"/">> \o b

\* models.py:127-142  get_model_path(file)
GetModelPath(file) == PathJoin(ModelsPath, file)

\* the content of a file that was opened for writing and never written
EmptyFile == [kind |-> "empty"]

\* the content of a file holding the JSON document of an object
JsonFile(obj) == [kind |-> "json", obj |-> obj]

\* models.py:125  the content of a file holding the pickle of an object
PickleFile(obj) == [kind |-> "pickle", obj |-> obj]

\* models.py:14, 17  the disk after the package has made its folders: no file yet
EmptyFolder == [q \in {} |-> EmptyFile]

\* models.py:67, 206, 257  os.path.isfile, os.path.exists
Exists(fs, p) == p \in DOMAIN fs

\* models.py:124-125, 224-225, 262-263  the disk after `content` is written to p
WriteFile(fs, p, content) ==
    [q \in DOMAIN fs \cup {p} |-> IF q = p THEN content ELSE fs[q]]

\* models.py:176, 185  os.listdir(dir): the names of the files of the folder
Listdir(fs, dir) ==
    {SubSeq(p, Len(dir) + 2, Len(p)) :
        p \in {q \in DOMAIN fs :
                 /\ Len(q) > Len(dir) + 1
                 /\ SubSeq(q, 1, Len(dir) + 1) = dir \o <<"/">>
                 /\ \A i \in (Len(dir) + 2)..Len(q) : q[i] # "/"}}

\* models.py:42-45  Model(clf, scaler, description): the three attributes, for the
\* classifier and the scaler of the loaded model m and the description d
ModelObject(m, d) ==
    [classifier |-> [features |-> m.features, coef_ |-> m.coef_,
                     n_features_in_ |-> m.n_features_in_,
                     intercept_ |-> m.intercept_, classes_ |-> m.classes_],
     scaler |-> [mean_ |-> m.mean_, scale_ |-> m.scale_],
     description |-> d]

\* the description dictionaries of the two models
DescLow == [details |-> "immune"]
DescHigh == [details |-> "lung", version |-> "v2"]

\* two loaded models that differ in weights, intercepts, means and scales
ModelLow ==
    CHOOSE m \in Models :
        /\ m.coef_ = << <<1, 0>>, <<0, 1>>, <<-1, -1>> >> /\ m.intercept_ = <<0, 0, 0>>
        /\ m.mean_ = <<0, 2>> /\ m.scale_ = <<1, 2>>
ModelHigh ==
    CHOOSE m \in Models :
        /\ m.coef_ = << <<1, 0>>, <<0, 1>>, <<1, 1>> >> /\ m.intercept_ = <<0, 1, 0>>
        /\ m.mean_ = <<2, 0>> /\ m.scale_ = <<2, 1>>

\* the Model objects of the file operations
ModelObjects == {ModelObject(ModelLow, DescLow), ModelObject(ModelHigh, DescHigh)}

\* models.py:122, 125  pickle.dump of the dictionary write() builds
DumpModel(m) ==
    PickleFile([Model |-> m.classifier, Scaler_ |-> m.scaler,
                description |-> m.description])

\* models.py:222  the address of the model index
IndexUrl == "https://celltypist.cog.sanger.ac.uk/models/models.json"

\* the addresses of the model files
UrlA == "https://celltypist.cog.sanger.ac.uk/models/A.pkl"
UrlB == "https://celltypist.cog.sanger.ac.uk/models/B.pkl"

\* the model index of the server: a model marked as the default and one without
\* the optional mark
RemoteIndex ==
    [models |-> << [filename |-> NameA, url |-> UrlA, default |-> TRUE,
                    details |-> "immune"],
                   [filename |-> NameB, url |-> UrlB, details |-> "lung"] >>]

\* what the server answers to a request of each address
RemoteContent ==
    IndexUrl :> JsonFile(RemoteIndex)
        @@ UrlA :> DumpModel(ModelObject(ModelLow, DescLow))
        @@ UrlB :> DumpModel(ModelObject(ModelHigh, DescHigh))

\* the network during one call: whether the first and the second request of the
\* index are answered (models.py:225, 226), and the model addresses that are
\* answered (models.py:263); a request that is not answered raises
Nets ==
    [index : {<<FALSE, FALSE>>, <<TRUE, FALSE>>, <<TRUE, TRUE>>},
     up : {{}, {UrlB}, {UrlA, UrlB}}]

(***************************************************************************)
(* The model index and download_models  (models.py:145-265)                *)
(*                                                                         *)
(* Every function returns the disk it leaves, the error it raises or       *)
(* "none", and its value when it returns one.                              *)
(***************************************************************************)
\* models.py:205  get_model_path("models.json")
IndexPath == GetModelPath(IndexName)

\* models.py:212-229  download_model_index(), as get_models_index calls it
\* (only_model = True): the file is opened for writing, which empties it, before
\* the first request is made
DownloadModelIndex(fs, net) ==
    IF ~net.index[1]
    THEN [files |-> WriteFile(fs, IndexPath, EmptyFile), raised |-> "ConnectionError"]
    ELSE [files |-> WriteFile(fs, IndexPath, RemoteContent[IndexUrl]),
          raised |-> IF ~net.index[2] THEN "ConnectionError" ELSE "none"]

\* models.py:208-209  json.load of the index file, after the download `got` if
\* one was made
ReadIndex(got) ==
    IF got.raised # "none" THEN got
    ELSE IF got.files[IndexPath].kind # "json"
    THEN [files |-> got.files, raised |-> "JSONDecodeError"]
    ELSE [files |-> got.files, raised |-> "none", value |-> got.files[IndexPath].obj]

\* models.py:190-209  get_models_index(force_update)
GetModelsIndex(fs, force_update, net) ==
    ReadIndex(IF ~Exists(fs, IndexPath) \/ force_update
              THEN DownloadModelIndex(fs, net)
              ELSE [files |-> fs, raised |-> "none"])

\* models.py:155  "default" in m and m["default"]
IsDefault(m) == "default" \in DOMAIN m /\ m["default"]

\* models.py:155-162  the default model of the index get_models_index returned
DefaultOf(index) ==
    IF index.raised # "none" THEN index
    ELSE LET default_model == SelectSeq(index.value.models, IsDefault)
         IN IF Len(default_model) = 0
            THEN IF Len(index.value.models) = 0
                 THEN [files |-> index.files, raised |-> "IndexError"]
                 ELSE [files |-> index.files, raised |-> "none",
                       value |-> index.value.models[1].filename]
            ELSE [files |-> index.files, raised |-> "none",
                  value |-> default_model[1].filename]

\* models.py:145-162  get_default_model()
GetDefaultModel(fs, net) == DefaultOf(GetModelsIndex(fs, FALSE, net))

\* one call of the logger
LogLine(level, event, filename) == [level |-> level, event |-> event, filename |-> filename]

\* models.py:255-265  the loop of download_models over the models of the index:
\* a file that exists is skipped unless force_update; the file is opened for
\* writing before the request is made, and a request that raises is logged
DownloadLoop(fs, models, force_update, net) ==
    LET RECURSIVE Upto(_)
        Upto(n) ==
            IF n = 0 THEN [files |-> fs, log |-> << >>]
            ELSE LET done == Upto(n - 1)
                     filename == models[n].filename
                     model_path == GetModelPath(filename)
                 IN IF Exists(done.files, model_path) /\ ~force_update
                    THEN [files |-> done.files,
                          log |-> Append(done.log, LogLine("info", "Skipping", filename))]
                    ELSE IF models[n].url \in net.up
                    THEN [files |-> WriteFile(done.files, model_path,
                                              RemoteContent[models[n].url]),
                          log |-> Append(done.log, LogLine("info", "Downloading", filename))]
                    ELSE [files |-> WriteFile(done.files, model_path, EmptyFile),
                          log |-> done.log \o <<LogLine("info", "Downloading", filename),
                                                 LogLine("error", "failed", filename)>>]
    IN Upto(Len(models))

\* the names bound at the top level of models.py (lines 1-17 and every def and class)
ModuleNames ==
    {"os", "pathlib", "json", "pickle", "requests", "np", "pd", "Optional", "Union",
     "expit", "logger", "celltypist_path", "data_path", "models_path", "Model",
     "get_model_path", "get_default_model", "get_all_models", "download_if_required",
     "get_models_index", "download_model_index", "download_models",
     "models_description"}

\* models.py:251  the models of the index whose file name is in model_list
FilterModels(models, model_list) ==
    LET Listed(m) == m.filename \in Range(model_list) IN SelectSeq(models, Listed)

\* models.py:248  what download_models logs before it reads model_list
Storing == <<LogLine("info", "Storing", ModelsPath)>>

\* models.py:250-253  what the filter logs
Filtering(models, model_list) ==
    IF Len(model_list) = 0 THEN << >>
    ELSE IF Len(models) = 0
    THEN <<LogLine("info", "Filtering", model_list),
           LogLine("error", "All models filtered out", model_list)>>
    ELSE <<LogLine("info", "Filtering", model_list)>>

\* models.py:249-251  the models the loop runs over
Selected(models, model_list) ==
    IF Len(model_list) # 0 THEN FilterModels(models, model_list) ELSE models

\* models.py:254-265  the end of download_models: the loop and what the call leaves
DownloadSelected(index, models, model_list, loop) ==
    [files |-> loop.files, raised |-> "none",
     log |-> Storing \o Filtering(models, model_list) \o loop.log, index |-> index.value]

\* models.py:248-265  download_models after get_models_index has returned `index`:
\* line 249 reads the name model_list, which is looked up among the local names
\* and then among the names of the module
DownloadWithIndex(index, locals, force_update, net) ==
    IF index.raised # "none"
    THEN [files |-> index.files, raised |-> index.raised, log |-> << >>]
    ELSE IF "model_list" \notin DOMAIN locals \cup ModuleNames
    THEN [files |-> index.files, raised |-> "NameError", log |-> Storing,
          index |-> index.value]
    ELSE DownloadSelected(index,
             Selected(index.value.models, locals["model_list"]), locals["model_list"],
             DownloadLoop(index.files,
                          Selected(index.value.models, locals["model_list"]),
                          force_update, net))

\* models.py:231-265  download_models(force_update, model), its argument model
\* called names here; the local names when line 249 runs are the two arguments
\* and models_json
DownloadModelsRun(fs, force_update, names, net) ==
    DownloadWithIndex(GetModelsIndex(fs, force_update, net),
                      [force_update |-> force_update, model |-> names,
                       models_json |-> "index"],
                      force_update, net)

\* models.py:177, 185  the .pkl files of the models folder
PklNames(fs) == {n \in Listdir(fs, ModelsPath) : EndsWith(n, DotPkl)}

\* models.py:183-187  download_if_required()
DownloadIfRequired(fs, net) ==
    IF Cardinality(PklNames(fs)) = 0
    THEN DownloadModelsRun(fs, FALSE, << >>, net)
    ELSE [files |-> fs, raised |-> "none"]

\* models.py:175-180  the names get_all_models returns after download_if_required
AllModelsOf(req) ==
    IF req.raised # "none" THEN [files |-> req.files, raised |-> req.raised]
    ELSE [files |-> req.files, raised |-> "none", value |-> PklNames(req.files)]

\* models.py:165-180  get_all_models()
GetAllModels(fs, net) == AllModelsOf(DownloadIfRequired(fs, net))

(***************************************************************************)
(* Model.write and Model.load  (models.py:47-74, 120-125)                  *)
(***************************************************************************)
\* models.py:120-125  m.write(file): the disk it leaves
WriteRun(fs, m, file) == WriteFile(fs, SplitextRoot(file) \o DotPkl, DumpModel(m))

\* models.py:71-72  the keys load() reads from the unpickled object
PickleKeys == {"Model", "Scaler_", "description"}

\* models.py:69-74  the Model unpickled from the file at path
LoadFile(fs, path) ==
    IF ~Exists(fs, path) THEN [files |-> fs, raised |-> "FileNotFoundError"]
    ELSE IF fs[path].kind # "pickle" \/ ~(PickleKeys \subseteq DOMAIN fs[path].obj)
    THEN [files |-> fs, raised |-> "Exception"]
    ELSE [files |-> fs, raised |-> "none",
          value |-> [classifier |-> fs[path].obj["Model"],
                     scaler |-> fs[path].obj["Scaler_"],
                     description |-> fs[path].obj["description"]]]

\* models.py:65-74  load() after get_all_models has returned `all`
LoadListed(name, all) ==
    IF all.raised # "none" THEN all
    ELSE LoadFile(all.files, IF name \in all.value THEN GetModelPath(name) ELSE name)

\* models.py:65-74  load() after the model name is settled
LoadNamed(named, net) ==
    IF named.raised # "none" THEN [files |-> named.files, raised |-> named.raised]
    ELSE LoadListed(named.value, GetAllModels(named.files, net))

\* models.py:47-74  Model.load(model), its argument called name here; an empty
\* name stands for None and ''
LoadRun(fs, name, net) ==
    LoadNamed(IF Len(name) = 0 THEN GetDefaultModel(fs, net)
              ELSE [files |-> fs, raised |-> "none", value |-> name],
              net)

\* the file arguments of write(): with the extension .pkl, with another one, with
\* none, named as a model of the models folder but in the working directory, and
\* a path into the models folder
WritePaths ==
    {<<"out", ".", "pkl">>, <<"out", ".", "txt">>, <<"out">>, NameA,
     GetModelPath(NameB)}

\* the model arguments of load(): those of write(), a name of the models folder,
\* the path of a file that is no pickle, and none
LoadNames == WritePaths \cup {NameB, IndexPath, << >>}

\* the model arguments of download_models(): none, and lists of file names
ModelLists == {<< >>, <<NameB, <<"C", ".", "pkl">> >>}

\* the models folders a session can find: as the package has just made it, and
\* as earlier sessions and releases have left it (with the index only, with
\* models, with an index whose download failed, with a model and no index)
InitialFolders ==
    LET index == GetModelPath(IndexName) :> RemoteContent[IndexUrl]
        a == GetModelPath(NameA) :> RemoteContent[UrlA]
        b == GetModelPath(NameB) :> RemoteContent[UrlB]
    IN {EmptyFolder, index, index @@ a, index @@ a @@ b,
        (GetModelPath(IndexName) :> EmptyFile) @@ a, a}

(***************************************************************************)
(* The state machine                                                       *)
(***************************************************************************)
\* Model.load() has returned the Model; nothing else exists yet
Init ==
    /\ model0 \in Models
    /\ model = model0
    /\ built = 0
    /\ clf = NoClassifier
    /\ call = NoCall
    /\ pred = NoPred
    /\ result = NoResult
    /\ voteCall = NoCall
    /\ files = EmptyFolder
    /\ fileCall = NoCall

\* classifier.py:117-159  Classifier(filename, model): a new Classifier on the
\* shared Model
NewClassifier ==
    /\ built < MaxClassifiers
    /\ \E adata \in Adatas : clf' = NewClassifierObject(adata)
    /\ built' = built + 1
    /\ call' = NoCall
    /\ pred' = NoPred
    /\ UNCHANGED <<model0, model, result, voteCall>>
    /\ UNCHANGED fileVars

\* classifier.py:161-197  clf.celltype(), the first call on this Classifier (a
\* second call on the same object would rescale the matrix the first one has
\* rescaled; the later calls on the shared Model are those of new Classifiers)
Celltype ==
    /\ clf # NoClassifier
    /\ call = NoCall
    /\ LET run == CelltypeRun(model, clf)
       IN /\ model' = run.model
          /\ clf' = run.clf
          /\ call' = run.call
          /\ pred' = run.pred
          /\ result' = IF run.call.raised = "none"
                       THEN CelltypeResult(clf.adata.obs_names, run.model.classes_,
                                           run.pred.labels, run.pred.probs)
                       ELSE result
    /\ UNCHANGED <<model0, built, voteCall>>
    /\ UNCHANGED fileVars

\* the probability thresholds of the direct calls
PThresValues == {DefaultPThres, Expit(5)}

\* models.py:86-118  model.predict_labels_and_prob(clf.indata, mode, p_thres) on the
\* matrix celltype() has aligned and rescaled
Predict ==
    /\ clf # NoClassifier
    /\ call # NoCall
    /\ \E mode \in Modes, p_thres \in PThresValues :
          pred' = PredictLabelsAndProb(model, clf.indata, mode, p_thres)
    /\ UNCHANGED <<model0, model, built, clf, call, result, voteCall>>
    /\ UNCHANGED fileVars

Next == NewClassifier \/ Celltype \/ Predict

Spec == Init /\ [][Next]_vars

\* classifier.py:34-37  an AnnotationResult built from a label frame and a
\* probability frame over the same cells (here every cell has the same probabilities)
BuildResult ==
    \E n \in 1..MaxCells :
        \E labs \in [1..n -> VoteLabels], row \in ProbRows :
            /\ result' = CelltypeResult(SubSeq(CellIds, 1, n), model.classes_, labs,
                                        [c \in 1..n |-> row])
            /\ voteCall' = NoCall
            /\ UNCHANGED <<model0, model, built, clf, call, pred>>
            /\ UNCHANGED fileVars

\* classifier.py:248-276  Classifier.majority_vote(result, over_clustering), the
\* first call on this AnnotationResult, with one cluster id per cell
MajorityVote ==
    /\ result # NoResult
    /\ voteCall = NoCall
    /\ \E oc \in [1..result.cell_count -> ClusterIds] :
          /\ result' = [result EXCEPT !.predicted_labels =
                            MajorityVoteFrame(result.predicted_labels, oc)]
          /\ voteCall' = [before |-> result, over_clustering |-> oc]
    /\ UNCHANGED <<model0, model, built, clf, call, pred>>
    /\ UNCHANGED fileVars

VoteNext == BuildResult \/ MajorityVote

\* majority_vote() reads and writes the AnnotationResult only: one loaded Model
\* stands for all
VoteInit == Init /\ model0 = CHOOSE m \in Models : TRUE

VoteSpec == VoteInit /\ [][VoteNext]_vars

\* the index a download_models() call could not read
NoIndex == [none |-> "index"]

\* models.py:231-265  download_models(force_update, model)
DownloadModels ==
    /\ \E force_update \in BOOLEAN, list \in ModelLists, net \in Nets :
          LET run == DownloadModelsRun(files, force_update, list, net)
          IN /\ files' = run.files
             /\ fileCall' = [op |-> "download_models", force_update |-> force_update,
                             model |-> list, net |-> net, before |-> files,
                             index |-> IF "index" \in DOMAIN run THEN run.index
                                       ELSE NoIndex,
                             raised |-> run.raised, log |-> run.log]
    /\ UNCHANGED pipeVars

\* models.py:120-125  m.write(file)
Write ==
    /\ \E m \in ModelObjects, file \in WritePaths :
          /\ files' = WriteRun(files, m, file)
          /\ fileCall' = [op |-> "write", model |-> m, file |-> file, raised |-> "none"]
    /\ UNCHANGED pipeVars

\* models.py:47-74  Model.load(model); the call remembers the write() it follows
Load ==
    /\ \E name \in LoadNames, net \in Nets :
          LET run == LoadRun(files, name, net)
          IN /\ files' = run.files
             /\ fileCall' = [op |-> "load", file |-> name,
                             follows |-> IF fileCall # NoCall /\ fileCall.op = "write"
                                         THEN fileCall ELSE NoCall,
                             raised |-> run.raised,
                             returned |-> IF run.raised = "none" THEN run.value
                                          ELSE NoCall]
    /\ UNCHANGED pipeVars

FileNext == DownloadModels \/ Write \/ Load

\* a session starts on the models folder as it was left; the file operations
\* read and write no object of the annotation pipeline
FileInit ==
    /\ model0 = CHOOSE m \in Models : TRUE
    /\ model = model0
    /\ built = 0
    /\ clf = NoClassifier
    /\ call = NoCall
    /\ pred = NoPred
    /\ result = NoResult
    /\ voteCall = NoCall
    /\ files \in InitialFolders
    /\ fileCall = NoCall

FileSpec == FileInit /\ [][FileNext]_vars

(***************************************************************************)
(* Claims                                                                  *)
(***************************************************************************)
\* a celltype() call has been made on the current Classifier
Called == clf # NoClassifier /\ call # NoCall

\* the genes the input of the call shares with the feature list the Model held
\* when the call was made
SharedGenes == Range(clf.adata.var_names) \cap Range(call.before.features)

\* C1: a celltype() call on an input that shares a gene with the model's feature
\* list ends without an error and leaves an AnnotationResult with one row of
\* predicted_labels and of probability_table per input cell and one probability
\* column per class.
C1_CelltypeReturnsResult ==
    (Called /\ SharedGenes # {}) =>
        /\ call.raised = "none"
        /\ result # NoResult
        /\ result.predicted_labels.index = clf.adata.obs_names
        /\ Len(result.predicted_labels.col["predicted_labels"]) = Len(clf.adata.X)
        /\ result.probability_table.index = clf.adata.obs_names
        /\ result.probability_table.columns = model.classes_

\* a best-match call has returned
BestMatchReturned ==
    pred # NoPred /\ pred.raised = "none" /\ pred.args.mode = "best match"

\* C2: in best-match mode every cell gets exactly one label, the class of the
\* largest decision score of its row, and of several classes with the largest score
\* the one that comes first in the class list.
C2_BestMatchIsFirstArgmax ==
    BestMatchReturned =>
        /\ Len(pred.labels) = Len(pred.args.indata)
        /\ \A c \in 1..Len(pred.labels) :
              \E k \in 1..Len(model.classes_) :
                  /\ pred.labels[c] = model.classes_[k]
                  /\ \A j \in 1..Len(model.classes_) : pred.scores[c][j] <= pred.scores[c][k]
                  /\ \A j \in 1..(k - 1) : pred.scores[c][j] < pred.scores[c][k]

\* C2 witness: a best-match call in which two classes tie for the largest score of
\* a cell and the cell is labelled with the first of them
C2_TieWitness ==
    /\ BestMatchReturned
    /\ \E c \in 1..Len(pred.labels) :
          \E j, k \in 1..Len(model.classes_) :
              /\ j < k
              /\ pred.scores[c][j] = pred.scores[c][k]
              /\ \A i \in 1..Len(model.classes_) : pred.scores[c][i] <= pred.scores[c][j]
              /\ pred.labels[c] = model.classes_[j]

\* a prob-match call has returned
ProbMatchReturned ==
    pred # NoPred /\ pred.raised = "none" /\ pred.args.mode = "prob match"

\* the names of the classes whose probability for cell c exceeds the threshold of
\* the call, in the order of the class list
Exceeding(c) ==
    LET RECURSIVE Upto(_)
        Upto(k) == IF k = 0 THEN << >>
                   ELSE IF pred.probs[c][k] > pred.args.p_thres
                   THEN Append(Upto(k - 1), model.classes_[k])
                   ELSE Upto(k - 1)
    IN Upto(Len(model.classes_))

\* C3: in prob-match mode every cell is labelled with the names of the classes whose
\* probability strictly exceeds the threshold, joined by '|' in class order; a cell
\* with no such class is labelled 'Unassigned', and no label is empty.
C3_ProbMatchLabels ==
    ProbMatchReturned =>
        /\ Len(pred.labels) = Len(pred.args.indata)
        /\ \A c \in 1..Len(pred.labels) :
              /\ pred.labels[c] # << >>
              /\ pred.labels[c] =
                    IF Exceeding(c) = << >> THEN Unassigned ELSE Join(Exceeding(c))

\* majority_vote() has been called on the current AnnotationResult
Voted == result # NoResult /\ voteCall # NoCall

\* the cells of cluster cl that are predicted as label l, counted on the columns of
\* the voted frame
CountIn(l, cl) ==
    LET pl == result.predicted_labels
    IN Cardinality({c \in 1..Len(pl.index) :
           pl.col["predicted_labels"][c] = l /\ pl.col["over_clustering"][c] = cl})

\* C4: after majority_vote the cells of one cluster share one majority_voting label,
\* no predicted label has more cells in the cluster than that label has, and of the
\* labels with as many cells it is the lowest in lexicographic order.
C4_MajorityOfCluster ==
    Voted =>
        LET pl == result.predicted_labels
            oc == pl.col["over_clustering"]
            mv == pl.col["majority_voting"]
            labels == Range(pl.col["predicted_labels"])
        IN /\ \A c, d \in 1..Len(pl.index) : oc[c] = oc[d] => mv[c] = mv[d]
           /\ \A c \in 1..Len(pl.index) :
                 /\ mv[c] \in labels
                 /\ \A l \in labels :
                       /\ CountIn(l, oc[c]) <= CountIn(mv[c], oc[c])
                       /\ CountIn(l, oc[c]) = CountIn(mv[c], oc[c]) => ~StrLess(l, mv[c])

\* C4 witness: a cluster whose first cell is predicted as a higher label than its
\* second, the two labels tie, and the lower one is the majority label
C4_TieWitness ==
    /\ Voted
    /\ Len(result.predicted_labels.index) >= 2
    /\ LET pl == result.predicted_labels
           lab == pl.col["predicted_labels"]
       IN /\ pl.col["over_clustering"][1] = pl.col["over_clustering"][2]
          /\ StrLess(lab[2], lab[1])
          /\ CountIn(lab[1], pl.col["over_clustering"][1])
                = CountIn(lab[2], pl.col["over_clustering"][1])
          /\ pl.col["majority_voting"][1] = lab[2]

PosIn(list, g) == CHOOSE i \in 1..Len(list) : list[i] = g

\* the genes of list that are also in other, in the order of list
Retained(list, other) ==
    LET InOther(g) == g \in Range(other) IN SelectSeq(list, InOther)

\* the value of the input of the call for cell r and gene g
Expression(r, g) == clf.adata.X[r][PosIn(clf.adata.var_names, g)]

Perms(n) == {p \in [1..n -> 1..n] : \A i, j \in 1..n : i # j => p[i] # p[j]}

\* the annotated matrix with its gene columns, names and values, permuted by p
PermuteGenes(adata, p) ==
    [adata EXCEPT !.var_names = [j \in 1..Len(p) |-> adata.var_names[p[j]]],
                  !.X = [r \in 1..Len(adata.X) |-> [j \in 1..Len(p) |-> adata.X[r][p[j]]]]]

\* the celltype() call was made on the model as loaded
FreshCall == Called /\ call.before = model0

\* C7: on a freshly loaded model, celltype() on the input with its gene columns
\* permuted computes the same scores, probabilities and labels for every cell (and
\* ends the same way).
C7_GeneOrderInvariant ==
    FreshCall =>
        \A p \in Perms(Len(clf.adata.var_names)) :
            LET other == CelltypeRun(model0, NewClassifierObject(PermuteGenes(clf.adata, p)))
            IN /\ other.call.raised = call.raised
               /\ other.pred.raised = call.returned.raised
               /\ call.returned.raised = "none" =>
                     /\ other.pred.scores = call.returned.scores
                     /\ other.pred.probs = call.returned.probs
                     /\ other.pred.labels = call.returned.labels

\* C7 witness: a call on the model as loaded that scores two genes given in the
\* reverse of the model's order
C7_TwoGeneWitness ==
    /\ FreshCall
    /\ call.returned.raised = "none"
    /\ clf.adata.var_names = <<model0.features[2], model0.features[1]>>

\* C8: the rescaled value of every cell and every retained gene g is
\* min((x - mean_g) / scale_g, 10) with the model's mean and scale of that same gene.
C8_RescaledWithOwnParameters ==
    Called =>
        \A r \in 1..Len(clf.indata) :
            \A j \in 1..Len(clf.indata_genes) :
                LET g == clf.indata_genes[j]
                    i == PosIn(model0.features, g)
                IN clf.indata[r][j]
                      = Min((Expression(r, g) - model0.mean_[i]) \div model0.scale_[i], ClipMax)

\* C9: a call on an input that shares no gene with the model's feature list fails in
\* gene alignment, before anything is scored.
C9_NoOverlapFailsInAlignment ==
    (Called /\ SharedGenes = {}) =>
        /\ call.raised = "alignment"
        /\ call.returned = NoPred

\* C10: celltype() leaves the Model as it was before the call: feature list, weight
\* matrix, feature count, intercept, class list, scaler mean and scale.
C10_ModelReadOnly ==
    Called => model = call.before

\* a download_models() call has been made
Downloaded == fileCall # NoCall /\ fileCall.op = "download_models"

\* the models of the index the call is to download: all of them, or those named
\* in its model argument
ToDownload == Selected(fileCall.index.models, fileCall.model)

\* C11: a download_models() call that has read the model index ends without an
\* error; every model of the (name-filtered) index whose file existed and
\* force_update is not set keeps its file, every other one is requested, its file
\* holding what the server answered, and a request that fails is logged as an
\* error for that model, and for no other.
C11_DownloadsEveryModel ==
    (Downloaded /\ fileCall.index # NoIndex) =>
        /\ fileCall.raised = "none"
        /\ \A n \in 1..Len(ToDownload) :
              LET entry == ToDownload[n]
                  path == GetModelPath(entry.filename)
                  failed == LogLine("error", "failed", entry.filename)
              IN IF Exists(fileCall.before, path) /\ ~fileCall.force_update
                 THEN /\ files[path] = fileCall.before[path]
                      /\ failed \notin Range(fileCall.log)
                 ELSE /\ Exists(files, path)
                      /\ entry.url \in fileCall.net.up =>
                            /\ files[path] = RemoteContent[entry.url]
                            /\ failed \notin Range(fileCall.log)
                      /\ entry.url \notin fileCall.net.up => failed \in Range(fileCall.log)
        /\ \A line \in Range(fileCall.log) :
              line.event = "failed" =>
                  \E n \in 1..Len(ToDownload) : ToDownload[n].filename = line.filename

\* a load() call has been made right after a write() call, with the file argument
\* of that call
LoadedWritten ==
    /\ fileCall # NoCall
    /\ fileCall.op = "load"
    /\ fileCall.follows # NoCall
    /\ fileCall.follows.file = fileCall.file

\* C12: m.write(f) followed by Model.load(f) ends without an error and returns a
\* Model with the classifier, the scaler and the description of m, whatever the
\* extension of f and whatever the models folder holds.
C12_WriteLoadRoundTrip ==
    LoadedWritten =>
        /\ fileCall.raised = "none"
        /\ fileCall.returned.classifier = fileCall.follows.model.classifier
        /\ fileCall.returned.scaler = fileCall.follows.model.scaler
        /\ fileCall.returned.description = fileCall.follows.model.description

\* C13: in every celltype() call on the shared Model, the index used for a retained
\* gene into the feature list and the weight matrix, and into the scaler's mean and
\* scale, is the position of that same gene there, and the weight column the call
\* leaves for the gene is the gene's own; also after earlier calls have re-indexed
\* the feature list and the weights.  (The scaler is never re-indexed: its vectors
\* stay in the order of the feature list as loaded.)
C13_IndicesReferToOwnGene ==
    Called =>
        \A j \in 1..Len(clf.indata_genes) :
            LET g == clf.indata_genes[j]
            IN /\ call.before.features[call.lr_idx[j]] = g
               /\ model0.features[call.lr_idx[j]] = g
               /\ call.means_[j] = model0.mean_[PosIn(model0.features, g)]
               /\ call.sds_[j] = model0.scale_[PosIn(model0.features, g)]
               /\ \A k \in 1..Len(model.coef_) :
                     model.coef_[k][j] = model0.coef_[k][PosIn(model0.features, g)]

====
